---- MODULE Spec2Model ----
(***************************************************************************)
(* Model of jwst/cube_build/src/cube_dq_utils.c: the routines that set the *)
(* DQ plane of an IFU cube (MIRI polygon coverage, NIRSpec line coverage). *)
(*                                                                         *)
(* Numbers.  The C doubles and floats are modelled by integers in a common *)
(* unit, computed exactly; every comparison and every (int) truncation of  *)
(* the source is kept.  Flat C arrays are functions on 0..n-1.             *)
(*                                                                         *)
(* Undefined behaviour (a store through a null pointer, a store or a read  *)
(* outside an array) is a nondeterministic choice: the call crashes, the   *)
(* stray access has no visible effect, or a stray store lands in the other *)
(* heap array of the call.                                                 *)
(***************************************************************************)
EXTENDS Integers, Sequences, FiniteSets, TLC

VARIABLES
    fn,             \* the entry point being run
    args,           \* its arguments (read-only once the call is made)
    pc,             \* position in the entry point
    wave_slice_dq,  \* the per-plane scratch buffer (int *wave_slice_dq)
    idqv,           \* the cube-sized output array (int *idqv), or NULL
    w,              \* wavelength plane counter of the orchestrators
    status,         \* the value returned, NotReturned before the return
    ret,            \* what the call set through its out-parameters
    ub,             \* the undefined behaviour the run went through
    failed          \* the allocations of the run that returned no memory

vars == <<fn, args, pc, wave_slice_dq, idqv, w, status, ret, ub, failed>>

NULL == <<>>
IsNull(p) == DOMAIN p = {}
NotReturned == "none"
Unset == "unset"

\* ------------------------------------------------------------------------
\* Bounds of the inputs the specifications enumerate
\* ------------------------------------------------------------------------
MaxXi == 11
MaxEta == 5

\* ------------------------------------------------------------------------
\* C arithmetic
\* ------------------------------------------------------------------------
Abs(x) == IF x < 0 THEN -x ELSE x

\* (int)(a / b) on doubles: the quotient truncated toward zero
TruncDiv(a, b) ==
    LET q == Abs(a) \div Abs(b)
    IN  IF (a < 0) = (b < 0) THEN q ELSE -q

ZeroArray(n) == [i \in 0..(n - 1) |-> 0]

\* ------------------------------------------------------------------------
\* overlap_slice_with_spaxels (NIRSpec line rasterizer)
\* ------------------------------------------------------------------------
\* lines 517-520: the endpoints converted to integer grid indices
LineEndpoints(a) ==
    [x1 |-> TruncDiv(a.xi_min - a.xstart, a.cdelt1),
     y1 |-> TruncDiv(a.eta_min - a.ystart, a.cdelt2),
     x2 |-> TruncDiv(a.xi_max - a.xstart, a.cdelt1),
     y2 |-> TruncDiv(a.eta_max - a.ystart, a.cdelt2)]

IsSteep(p) == Abs(p.y2 - p.y1) > Abs(p.x2 - p.x1)

\* lines 529-534: x1 = y1; y1 = x1; x2 = y2; y2 = x2;  (no temporary)
SteepSwap(p) ==
    IF IsSteep(p)
    THEN [x1 |-> p.y1, y1 |-> p.y1, x2 |-> p.y2, y2 |-> p.y2]
    ELSE p

\* lines 538-544: x1 = x2; x2 = x1; y1 = y2; y2 = y1;  (no temporary)
EndpointSwap(p) ==
    IF p.x1 > p.x2
    THEN [x1 |-> p.x2, y1 |-> p.y2, x2 |-> p.x2, y2 |-> p.y2]
    ELSE p

LoopEndExclusive(x2) == x2

\* line 560: for (x = x1; x < (x2 + 1); x++)
LoopEnd(x2) == x2 + 1

\* lines 560-576: the walk; the flat indices written, in order
RECURSIVE LineWalk(_, _, _, _, _, _, _, _, _)
LineWalk(x, y, error, xend, dx, dy, ystep, is_steep, naxis1) ==
    IF ~(x < xend)
    THEN <<>>
    ELSE LET yuse == IF is_steep THEN x ELSE y
             xuse == IF is_steep THEN y ELSE x
             index == (yuse * naxis1) + xuse
             e1 == error - Abs(dy)
             ynext == IF e1 < 0 THEN y + ystep ELSE y
             e2 == IF e1 < 0 THEN e1 + dx ELSE e1
         IN  <<index>> \o LineWalk(x + 1, ynext, e2, xend, dx, dy, ystep,
                                   is_steep, naxis1)

\* lines 517-576: every flat index the call stores overlap_partial to
LineIndices(a) ==
    LET p0 == LineEndpoints(a)
        is_steep == IsSteep(p0)
        p == EndpointSwap(SteepSwap(p0))
        dx == p.x2 - p.x1
        dy == p.y2 - p.y1
        error == TruncDiv(dx, 2)
        ystep == IF p.y1 < p.y2 THEN 1 ELSE -1
    IN  LineWalk(p.x1, p.y1, error, LoopEnd(p.x2), dx, dy, ystep, is_steep,
                 a.naxis1)

SeqRange(s) == {s[i] : i \in DOMAIN s}

\* lines 560-576: the same walk, as the column xuse, the row yuse and the
\* flat index of every store
RECURSIVE LineCellWalk(_, _, _, _, _, _, _, _, _)
LineCellWalk(x, y, error, xend, dx, dy, ystep, is_steep, naxis1) ==
    IF ~(x < xend)
    THEN <<>>
    ELSE LET yuse == IF is_steep THEN x ELSE y
             xuse == IF is_steep THEN y ELSE x
             index == (yuse * naxis1) + xuse
             e1 == error - Abs(dy)
             ynext == IF e1 < 0 THEN y + ystep ELSE y
             e2 == IF e1 < 0 THEN e1 + dx ELSE e1
         IN  <<[xuse |-> xuse, yuse |-> yuse, index |-> index]>>
                 \o LineCellWalk(x + 1, ynext, e2, xend, dx, dy, ystep,
                                 is_steep, naxis1)

\* lines 517-576: every store of the call
LineCells(a) ==
    LET p0 == LineEndpoints(a)
        is_steep == IsSteep(p0)
        p == EndpointSwap(SteepSwap(p0))
        dx == p.x2 - p.x1
        dy == p.y2 - p.y1
        error == TruncDiv(dx, 2)
        ystep == IF p.y1 < p.y2 THEN 1 ELSE -1
    IN  SeqRange(LineCellWalk(p.x1, p.y1, error, LoopEnd(p.x2), dx, dy, ystep,
                              is_steep, a.naxis1))

\* the stores of the call that fall outside the naxis1*naxis2 buffer
LineStray(a) == {i \in SeqRange(LineIndices(a)) : i \notin 0..(a.naxis1 * a.naxis2 - 1)}

\* line 570: wave_slice_dq[index] = overlap_partial, for the stores in range
OverlapSliceBuffer(buf, a) ==
    LET written == SeqRange(LineIndices(a))
    IN  [i \in DOMAIN buf |-> IF i \in written THEN a.overlap_partial ELSE buf[i]]

\* ------------------------------------------------------------------------
\* Specification SpecLine: one call of overlap_slice_with_spaxels
\* ------------------------------------------------------------------------
FlagPairs == {[overlap_partial |-> 4, overlap_full |-> 2]}
LineGrids == {<<6, 2>>, <<2, 3>>, <<3, 3>>}
LineCdelt == {2}
\* what the caller's buffer holds in every cell before the call
LinePrior == {0, 2}

LineArgs ==
    {[overlap_partial |-> f.overlap_partial,
      cdelt1 |-> c, cdelt2 |-> c,
      naxis1 |-> g[1], naxis2 |-> g[2],
      xstart |-> 0, ystart |-> 0,
      xi_min |-> xa, eta_min |-> ya, xi_max |-> xb, eta_max |-> yb,
      prior |-> v] :
        f \in FlagPairs, c \in LineCdelt, g \in LineGrids, v \in LinePrior,
        xa \in (-2)..MaxXi, xb \in (-2)..MaxXi,
        ya \in (-2)..MaxEta, yb \in (-2)..MaxEta}

InitLine ==
    /\ fn = "overlap_slice_with_spaxels"
    /\ args \in LineArgs
    /\ pc = "call"
    /\ wave_slice_dq = [i \in 0..(args.naxis1 * args.naxis2 - 1) |-> args.prior]
    /\ idqv = NULL
    /\ w = 0
    /\ status = NotReturned
    /\ ret = Unset
    /\ ub = {}
    /\ failed = {}

\* the call runs to its return 0 (line 577); stray stores, if any, had no
\* visible effect
OverlapSliceReturn ==
    /\ fn = "overlap_slice_with_spaxels"
    /\ pc = "call"
    /\ wave_slice_dq' = OverlapSliceBuffer(wave_slice_dq, args)
    /\ ub' = IF LineStray(args) = {} THEN ub ELSE ub \cup {"oob_store"}
    /\ status' = 0
    /\ pc' = "done"
    /\ UNCHANGED <<fn, args, idqv, w, ret, failed>>

\* a store outside the buffer (line 570) ends the process
OverlapSliceCrash ==
    /\ fn = "overlap_slice_with_spaxels"
    /\ pc = "call"
    /\ LineStray(args) # {}
    /\ ub' = ub \cup {"oob_store"}
    /\ pc' = "crashed"
    /\ UNCHANGED <<fn, args, wave_slice_dq, idqv, w, status, ret, failed>>

NextLine == OverlapSliceReturn \/ OverlapSliceCrash

SpecLine == InitLine /\ [][NextLine]_vars

\* ------------------------------------------------------------------------
\* Claims about overlap_slice_with_spaxels
\* ------------------------------------------------------------------------
LineDone == fn = "overlap_slice_with_spaxels" /\ pc = "done"

InGrid(x, y, a) == x \in 0..(a.naxis1 - 1) /\ y \in 0..(a.naxis2 - 1)

EndpointsInGrid(a) ==
    LET p == LineEndpoints(a)
    IN  InGrid(p.x1, p.y1, a) /\ InGrid(p.x2, p.y2, a)

CellIndex(x, y, a) == y * a.naxis1 + x

MarkedCells == {i \in DOMAIN wave_slice_dq : wave_slice_dq[i] = args.overlap_partial}

Max(a, b) == IF a > b THEN a ELSE b

\* C5: a horizontal segment whose endpoints map to grid indices (a, r) and
\* (b, r), a <= b, inside the grid sets exactly the b-a+1 cells (a, r)..(b, r)
\* to overlap_partial and leaves every other cell as it was.
C5_HorizontalExact ==
    LineDone =>
        LET p == LineEndpoints(args)
        IN  (EndpointsInGrid(args) /\ p.y1 = p.y2 /\ p.x1 <= p.x2) =>
                \A i \in DOMAIN wave_slice_dq :
                    wave_slice_dq[i] =
                        IF \E x \in p.x1..p.x2 : i = CellIndex(x, p.y1, args)
                        THEN args.overlap_partial
                        ELSE args.prior

\* the segment (0,0)..(5,0) of the spec's worked example, on a 6x2 grid
C5_Witness ==
    /\ LineDone
    /\ LineEndpoints(args) = [x1 |-> 0, y1 |-> 0, x2 |-> 5, y2 |-> 0]
    /\ args.naxis1 = 6
    /\ MarkedCells = 0..5
    /\ \A i \in 6..11 : wave_slice_dq[i] = args.prior

\* C9: for endpoints inside the grid, of any slope and in any order, the call
\* marks exactly max(|x2-x1|, |y2-y1|)+1 cells, among them both endpoint cells.
C9_AnySlopeAnyOrder ==
    LineDone =>
        LET p == LineEndpoints(args)
        IN  EndpointsInGrid(args) =>
                /\ Cardinality(MarkedCells) =
                       Max(Abs(p.x2 - p.x1), Abs(p.y2 - p.y1)) + 1
                /\ CellIndex(p.x1, p.y1, args) \in MarkedCells
                /\ CellIndex(p.x2, p.y2, args) \in MarkedCells

\* ------------------------------------------------------------------------
\* match_wave_plane_nirspec (NIRSpec slice extent finder)
\* ------------------------------------------------------------------------
\* The point cloud coord1[], coord2[], wave[], sliceno[] of npt elements is a
\* sequence of records; element ipt of the C arrays is pts[ipt + 1].

\* the fixed number of slices of the tables (lines 415, 458, 804)
NSLICE == 30
\* float minvalue = 10000.0 (line 413; lines 113-114, 125-126 in MIRI)
MINVALUE == 10000
\* float maxvalue = -10000.0 (line 414; lines 115-116, 127-128 in MIRI)
MAXVALUE == -10000

InRoiInclusive(wave_distance, roiw_ave) == wave_distance <= roiw_ave

\* lines 147, 177, 433: wave_distance < roiw_ave
InRoi(wave_distance, roiw_ave) == wave_distance < roiw_ave

\* lines 415-423
MatchInit ==
    [c1_min |-> [i \in 0..(NSLICE - 1) |-> MINVALUE],
     c2_min |-> [i \in 0..(NSLICE - 1) |-> MINVALUE],
     c1_max |-> [i \in 0..(NSLICE - 1) |-> MAXVALUE],
     c2_max |-> [i \in 0..(NSLICE - 1) |-> MAXVALUE],
     ii |-> 0]

\* lines 425-455: the scan of the point cloud from element ipt on
RECURSIVE MatchScan(_, _, _, _, _)
MatchScan(pts, ipt, wave_plane, roiw_ave, t) ==
    IF ~(ipt < Len(pts))
    THEN t
    ELSE LET p == pts[ipt + 1]
             wave_distance == Abs(wave_plane - p.wave)
             c1 == p.coord1
             c2 == p.coord2
             islice == p.sliceno - 1
             t1 == IF c1 < t.c1_min[islice]
                   THEN [t EXCEPT !.c1_min[islice] = c1] ELSE t
             t2 == IF c2 < t1.c2_min[islice]
                   THEN [t1 EXCEPT !.c2_min[islice] = c2] ELSE t1
             t3 == IF c1 > t2.c1_max[islice]
                   THEN [t2 EXCEPT !.c1_max[islice] = c1] ELSE t2
             t4 == IF c2 > t3.c2_max[islice]
                   THEN [t3 EXCEPT !.c2_max[islice] = c2] ELSE t3
         IN  IF InRoi(wave_distance, roiw_ave)
             THEN MatchScan(pts, ipt + 1, wave_plane, roiw_ave,
                            [t4 EXCEPT !.ii = t.ii + 1])
             ELSE MatchScan(pts, ipt + 1, wave_plane, roiw_ave, t)

RangeFoundEitherAxis(t, i) == t.c1_min[i] # t.c1_max[i] \/ t.c2_min[i] # t.c2_max[i]

\* line 462: c1_min[i] != c1_max[i] && c2_min[i] != c2_max[i]
RangeFound(t, i) == t.c1_min[i] # t.c1_max[i] /\ t.c2_min[i] # t.c2_max[i]

\* lines 457-467
MatchSlices(t) ==
    [i \in 0..(NSLICE - 1) |->
        IF /\ t.ii > 0
           /\ t.c1_min[i] # MINVALUE /\ t.c2_min[i] # MINVALUE
           /\ t.c1_max[i] # MAXVALUE /\ t.c2_max[i] # MAXVALUE
           /\ RangeFound(t, i)
        THEN 1 ELSE 0]

\* lines 357-470: the tables set, match_slice and the value returned (ii)
MatchWavePlaneNirspec(wave_plane, roiw_ave, pts) ==
    LET t == MatchScan(pts, 0, wave_plane, roiw_ave, MatchInit)
    IN  [c1_min |-> t.c1_min, c2_min |-> t.c2_min,
         c1_max |-> t.c1_max, c2_max |-> t.c2_max,
         match_slice |-> MatchSlices(t), ii |-> t.ii]

\* ------------------------------------------------------------------------
\* Specification SpecMatch: one call of match_wave_plane_nirspec
\* ------------------------------------------------------------------------
MaxMatchPts == 3

SeqsUpTo(S, n) == UNION {[1..k -> S] : k \in 0..n}

MatchPoints ==
    [coord1 : {0, 1}, coord2 : {-1, 1}, wave : {4, 5, 6}, sliceno : {1, NSLICE}]

MatchArgs ==
    [wave_plane : {4}, roiw_ave : {2}, pts : SeqsUpTo(MatchPoints, MaxMatchPts)]

InitMatch ==
    /\ fn = "match_wave_plane_nirspec"
    /\ args \in MatchArgs
    /\ pc = "call"
    /\ wave_slice_dq = <<>>
    /\ idqv = NULL
    /\ w = 0
    /\ status = NotReturned
    /\ ret = Unset
    /\ ub = {}
    /\ failed = {}

MatchCall ==
    /\ fn = "match_wave_plane_nirspec"
    /\ pc = "call"
    /\ ret' = MatchWavePlaneNirspec(args.wave_plane, args.roiw_ave, args.pts)
    /\ status' = ret'.ii
    /\ pc' = "done"
    /\ UNCHANGED <<fn, args, wave_slice_dq, idqv, w, ub, failed>>

NextMatch == MatchCall

SpecMatch == InitMatch /\ [][NextMatch]_vars

\* ------------------------------------------------------------------------
\* Claims about match_wave_plane_nirspec
\* ------------------------------------------------------------------------
MatchDone == fn = "match_wave_plane_nirspec" /\ pc = "done"

\* the points of slice number s within the ROI of the plane
RoiPointsOfSlice(s) ==
    {k \in DOMAIN args.pts :
        /\ args.pts[k].sliceno = s
        /\ Abs(args.wave_plane - args.pts[k].wave) < args.roiw_ave}

\* C6: match_slice[i] = 1 exactly for the slices whose in-ROI points have a
\* non-degenerate range on both axes, 0 for every other slice; a slice whose
\* in-ROI points all share one coord1 value is never matched.
C6_MatchedIffBothRanges ==
    MatchDone =>
        \A i \in 0..(NSLICE - 1) :
            LET P == RoiPointsOfSlice(i + 1)
                both ==
                    /\ \E j \in P, k \in P :
                           args.pts[j].coord1 < args.pts[k].coord1
                    /\ \E j \in P, k \in P :
                           args.pts[j].coord2 < args.pts[k].coord2
            IN  ret.match_slice[i] = IF both THEN 1 ELSE 0

\* a slice with two in-ROI points of one coord1 and two coord2 values,
\* left unmatched
C6_Witness ==
    /\ MatchDone
    /\ \E i \in 0..(NSLICE - 1) :
           LET P == RoiPointsOfSlice(i + 1)
           IN  /\ \E j \in P, k \in P :
                      args.pts[j].coord2 < args.pts[k].coord2
               /\ \A j \in P, k \in P :
                      args.pts[j].coord1 = args.pts[k].coord1
               /\ ret.match_slice[i] = 0
               /\ ret.ii >= 2

\* ------------------------------------------------------------------------
\* corner_wave_plane_miri (MIRI FOV boundary finder)
\* ------------------------------------------------------------------------
\* lines 108-128: the extrema of one extreme slice and the point achieving
\* each, before the scan
ExtentInit ==
    [c1_min |-> MINVALUE, ic1_min |-> -1, c1_max |-> MAXVALUE, ic1_max |-> -1,
     c2_min |-> MINVALUE, ic2_min |-> -1, c2_max |-> MAXVALUE, ic2_max |-> -1]

CoordAcceptedAlways(c) == TRUE

\* lines 151, 181: if (c11 != -1), if (c12 != -1)
CoordAccepted(c) == c # -1

\* lines 151-172 (start region), 181-198 (end region)
ExtentUpdate(e, c1, c2, ipt) ==
    IF ~CoordAccepted(c1)
    THEN e
    ELSE LET e1 == IF c1 < e.c1_min
                   THEN [e EXCEPT !.c1_min = c1, !.ic1_min = ipt] ELSE e
             e2 == IF c1 > e1.c1_max
                   THEN [e1 EXCEPT !.c1_max = c1, !.ic1_max = ipt] ELSE e1
             e3 == IF c2 < e2.c2_min
                   THEN [e2 EXCEPT !.c2_min = c2, !.ic2_min = ipt] ELSE e2
             e4 == IF c2 > e3.c2_max
                   THEN [e3 EXCEPT !.c2_max = c2, !.ic2_max = ipt] ELSE e3
         IN  e4

\* lines 135-201: the scan of the point cloud from element ipt on
RECURSIVE CornerScan(_, _, _, _, _, _, _)
CornerScan(pts, ipt, zcw, roiw_ave, start_region, end_region, t) ==
    IF ~(ipt < Len(pts))
    THEN t
    ELSE LET p == pts[ipt + 1]
             slice == p.sliceno
             wave_distance == Abs(zcw - p.wave)
             s == IF /\ (slice = start_region \/ slice = end_region)
                     /\ InRoi(wave_distance, roiw_ave) /\ slice = start_region
                  THEN ExtentUpdate(t.start, p.coord1, p.coord2, ipt)
                  ELSE t.start
             e == IF /\ (slice = start_region \/ slice = end_region)
                     /\ InRoi(wave_distance, roiw_ave) /\ slice = end_region
                  THEN ExtentUpdate(t.end, p.coord1, p.coord2, ipt)
                  ELSE t.end
         IN  CornerScan(pts, ipt + 1, zcw, roiw_ave, start_region, end_region,
                        [start |-> s, end |-> e])

\* coord1[i], coord2[i]; an index outside the arrays reads no element
PointAt(pts, i) ==
    IF i \in 0..(Len(pts) - 1)
    THEN <<pts[i + 1].coord1, pts[i + 1].coord2>>
    ELSE "out_of_array"

\* lines 212-218: c1_use = 1 unless length_c1_start < length_c2_start
C1Use(t) ==
    IF (t.start.c1_max - t.start.c1_min) < (t.start.c2_max - t.start.c2_min)
    THEN 0 ELSE 1

Corner3IndexOfMin(t, c1_use) == IF c1_use = 0 THEN t.end.ic2_min ELSE t.end.ic1_min

\* lines 227-228, 239-240: the end-region point of corner3
Corner3Index(t, c1_use) == IF c1_use = 0 THEN t.end.ic2_max ELSE t.end.ic1_max

\* lines 206-248
CornerResult(pts, t) ==
    IF \/ t.start.ic1_min = -1 \/ t.start.ic1_max = -1
       \/ t.end.ic1_min = -1 \/ t.end.ic1_max = -1
    THEN [status |-> 1, c1_use |-> Unset, corner1 |-> Unset, corner2 |-> Unset,
          corner3 |-> Unset, corner4 |-> Unset]
    ELSE LET c1_use == C1Use(t)
         IN  [status |-> 0,
              c1_use |-> c1_use,
              corner1 |-> PointAt(pts, IF c1_use = 0 THEN t.start.ic2_min
                                       ELSE t.start.ic1_min),
              corner2 |-> PointAt(pts, IF c1_use = 0 THEN t.start.ic2_max
                                       ELSE t.start.ic1_max),
              corner3 |-> PointAt(pts, Corner3Index(t, c1_use)),
              corner4 |-> PointAt(pts, IF c1_use = 0 THEN t.end.ic2_min
                                       ELSE t.end.ic1_min)]

\* lines 53-249
CornerWavePlaneMiri(wi, start_region, end_region, roiw_ave, zc, pts) ==
    CornerResult(pts, CornerScan(pts, 0, zc[wi], roiw_ave, start_region,
                                 end_region,
                                 [start |-> ExtentInit, end |-> ExtentInit]))

\* ------------------------------------------------------------------------
\* Specification SpecCorner: corner_wave_plane_miri called on a point cloud,
\* then on the same cloud in reverse order with start_region and end_region
\* exchanged
\* ------------------------------------------------------------------------
MaxCornerPts == 3

CornerPoints ==
    [coord1 : {-1, 0, 1}, coord2 : {0, 1}, wave : {4, 6}, sliceno : {1, 2}]

CornerArgs ==
    [w : {1}, zc : {[i \in 0..1 |-> 4 * i]}, roiw_ave : {2},
     start_region : {1}, end_region : {1, 2},
     pts : SeqsUpTo(CornerPoints, MaxCornerPts)]

Reverse(s) == [i \in 1..Len(s) |-> s[Len(s) + 1 - i]]

InitCorner ==
    /\ fn = "corner_wave_plane_miri"
    /\ args \in CornerArgs
    /\ pc = "call"
    /\ wave_slice_dq = <<>>
    /\ idqv = NULL
    /\ w = args.w
    /\ status = NotReturned
    /\ ret = Unset
    /\ ub = {}
    /\ failed = {}

CornerCall ==
    /\ fn = "corner_wave_plane_miri"
    /\ pc = "call"
    /\ ret' = [first |-> CornerWavePlaneMiri(args.w, args.start_region,
                                             args.end_region, args.roiw_ave,
                                             args.zc, args.pts)]
    /\ status' = ret'.first.status
    /\ pc' = "called"
    /\ UNCHANGED <<fn, args, wave_slice_dq, idqv, w, ub, failed>>

CornerCallExchanged ==
    /\ fn = "corner_wave_plane_miri"
    /\ pc = "called"
    /\ ret' = [first |-> ret.first,
               second |-> CornerWavePlaneMiri(args.w, args.end_region,
                                              args.start_region, args.roiw_ave,
                                              args.zc, Reverse(args.pts))]
    /\ pc' = "done"
    /\ UNCHANGED <<fn, args, wave_slice_dq, idqv, w, status, ub, failed>>

NextCorner == CornerCall \/ CornerCallExchanged

SpecCorner == InitCorner /\ [][NextCorner]_vars

\* ------------------------------------------------------------------------
\* Claims about corner_wave_plane_miri
\* ------------------------------------------------------------------------
CornerReturned == fn = "corner_wave_plane_miri" /\ pc \in {"called", "done"}
CornerDone == fn = "corner_wave_plane_miri" /\ pc = "done"

\* the points of slice `region` with |zc[w] - wave| < roiw_ave
QualifyingPoints(region) ==
    {k \in DOMAIN args.pts :
        /\ args.pts[k].sliceno = region
        /\ Abs(args.zc[args.w] - args.pts[k].wave) < args.roiw_ave}

\* those of them the scan keeps (lines 151, 181)
TrackedPoints(region) ==
    {k \in QualifyingPoints(region) : args.pts[k].coord1 # -1}

IsCorner(c) == c \in {<<x, y>> : x \in {-1, 0, 1}, y \in {0, 1}}

\* C10: the call returns 1 exactly when the start slice or the end slice has
\* no point with |zc[w] - wave| < roiw_ave, and returns 0 with all four
\* corners set whenever each has one, whatever the coordinates.
C10_StatusIffSliceMissing ==
    CornerReturned =>
        LET missing == \/ QualifyingPoints(args.start_region) = {}
                       \/ QualifyingPoints(args.end_region) = {}
            r == ret.first
        IN  /\ (r.status = 1) <=> missing
            /\ ~missing =>
                   /\ r.status = 0
                   /\ IsCorner(r.corner1) /\ IsCorner(r.corner2)
                   /\ IsCorner(r.corner3) /\ IsCorner(r.corner4)

CoordOf(k, axis) == IF axis = 1 THEN args.pts[k].coord1 ELSE args.pts[k].coord2

SpanOf(P, axis) ==
    LET lo == CHOOSE k \in P : \A j \in P : CoordOf(k, axis) <= CoordOf(j, axis)
        hi == CHOOSE k \in P : \A j \in P : CoordOf(k, axis) >= CoordOf(j, axis)
    IN  CoordOf(hi, axis) - CoordOf(lo, axis)

\* the axis a slice's points select: coord2 (0) when their coord1 span is
\* smaller than their coord2 span, else coord1 (1)
AxisOf(P) == IF SpanOf(P, 1) < SpanOf(P, 2) THEN 0 ELSE 1

\* each extreme of `axis` is attained by one point of P
ExtremesUnique(P, axis) ==
    /\ Cardinality({k \in P : \A j \in P : CoordOf(k, axis) <= CoordOf(j, axis)}) = 1
    /\ Cardinality({k \in P : \A j \in P : CoordOf(k, axis) >= CoordOf(j, axis)}) = 1

CornersExchanged ==
    /\ ret.second.corner1 = ret.first.corner4
    /\ ret.second.corner2 = ret.first.corner3
    /\ ret.second.corner3 = ret.first.corner2
    /\ ret.second.corner4 = ret.first.corner1

ExtremePoints(P, axis, hi) ==
    {<<args.pts[k].coord1, args.pts[k].coord2>> :
        k \in {i \in P : \A j \in P :
                  IF hi THEN CoordOf(i, axis) >= CoordOf(j, axis)
                  ELSE CoordOf(i, axis) <= CoordOf(j, axis)}}

\* C11: when the call returns 0, the long axis is the axis with the larger
\* span among the qualifying start-slice points (coord1 on a tie), corner1
\* and corner2 are qualifying start-slice points with the minimum and the
\* maximum long-axis value, corner3 and corner4 qualifying end-slice points
\* with the maximum and the minimum.
C11_CornersAreExtremeSamples ==
    (CornerReturned /\ ret.first.status = 0) =>
        LET r == ret.first
            S == QualifyingPoints(args.start_region)
            E == QualifyingPoints(args.end_region)
            axis == IF AxisOf(S) = 1 THEN 1 ELSE 2
        IN  /\ r.c1_use = AxisOf(S)
            /\ r.corner1 \in ExtremePoints(S, axis, FALSE)
            /\ r.corner2 \in ExtremePoints(S, axis, TRUE)
            /\ r.corner3 \in ExtremePoints(E, axis, TRUE)
            /\ r.corner4 \in ExtremePoints(E, axis, FALSE)

\* ------------------------------------------------------------------------
\* overlap_fov_with_spaxels (MIRI polygon coverage rasterizer)
\* ------------------------------------------------------------------------
\* tolerance_dq_overlap = 0.05 (line 322), in hundredths
TolerancePct == 5
\* overlap_coverage > 0.95 (line 342), in hundredths
FullPct == 95

\* lines 310-319: the box of the four corners as the loop computes it;
\* line 318 reads  if (eta_corner[i] < etamax) etamax = eta_corner[i]
RECURSIVE FovBoxFrom(_, _, _, _)
FovBoxFrom(xi_corner, eta_corner, i, b) ==
    IF ~(i < 4)
    THEN b
    ELSE LET b1 == IF xi_corner[i] < b.ximin
                   THEN [b EXCEPT !.ximin = xi_corner[i]] ELSE b
             b2 == IF xi_corner[i] > b1.ximax
                   THEN [b1 EXCEPT !.ximax = xi_corner[i]] ELSE b1
             b3 == IF eta_corner[i] < b2.etamin
                   THEN [b2 EXCEPT !.etamin = eta_corner[i]] ELSE b2
             b4 == IF eta_corner[i] < b3.etamax
                   THEN [b3 EXCEPT !.etamax = eta_corner[i]] ELSE b3
         IN  FovBoxFrom(xi_corner, eta_corner, i + 1, b4)

FovBox(a) ==
    FovBoxFrom(a.xi_corner, a.eta_corner, 1,
               [ximin |-> a.xi_corner[0], ximax |-> a.xi_corner[0],
                etamin |-> a.eta_corner[0], etamax |-> a.eta_corner[0]])

\* lines 325-327: x1 = (xcenters[ix] - cdelt1)/2, x2 = (xcenters[ix] + cdelt1)/2,
\* x1 > ximin && x2 < ximax; both sides doubled
FovXTest(a, ix) ==
    /\ a.xcenters[ix] - a.cdelt1 > 2 * FovBox(a).ximin
    /\ a.xcenters[ix] + a.cdelt1 < 2 * FovBox(a).ximax

\* ycenters[ix] of lines 330-331: for ix >= naxis2 the read is outside the
\* array and gives whatever lies there
YCenterRead(a, ix) == IF ix \in 0..(a.naxis2 - 1) THEN a.ycenters[ix] ELSE a.stray

\* lines 330-332: y1 = (ycenters[ix] - cdelt2)/2, y2 = (ycenters[ix] + cdelt2)/2,
\* y1 > etamin && y2 < etamax; both sides doubled
FovYTest(a, ix) ==
    /\ YCenterRead(a, ix) - a.cdelt2 > 2 * FovBox(a).etamin
    /\ YCenterRead(a, ix) + a.cdelt2 < 2 * FovBox(a).etamax

\* lines 324-333: the flat indices ixy = iy * naxis1 + ix of the cells whose
\* overlap is computed
FovEvaluated(a) ==
    {iy * a.naxis1 + ix : ix \in {x \in 0..(a.naxis1 - 1) : FovXTest(a, x) /\ FovYTest(a, x)},
                          iy \in 0..(a.naxis2 - 1)}

\* the reads ycenters[ix] made outside the array
FovStrayReads(a) ==
    {ix \in 0..(a.naxis1 - 1) : FovXTest(a, ix) /\ a.naxis2 > 0 /\ ix >= a.naxis2}

\* sh_find_overlap (lines 19-21, defined in cube_utils.c): the area of the
\* intersection of the cell with the polygon; here the value the call returns
\* for cell ixy
ShFindOverlap(a, ixy) == a.area[ixy]

\* area_overlap / area_box > pct / 100, for area_box = cdelt1 * cdelt2 # 0
CoverageAbove(area_overlap, area_box, pct) ==
    IF area_box > 0
    THEN 100 * area_overlap > pct * area_box
    ELSE 100 * area_overlap < pct * area_box

\* area_overlap / area_box >= pct / 100
CoverageAtLeast(area_overlap, area_box, pct) ==
    IF area_box > 0
    THEN 100 * area_overlap >= pct * area_box
    ELSE 100 * area_overlap <= pct * area_box

CellFlagInclusive(a, ixy, old) ==
    LET area_box == a.cdelt1 * a.cdelt2
        ov == ShFindOverlap(a, ixy)
    IN  IF CoverageAtLeast(ov, area_box, TolerancePct)
        THEN IF CoverageAtLeast(ov, area_box, FullPct)
             THEN a.overlap_full ELSE a.overlap_partial
        ELSE old

\* lines 321, 334-347: what an evaluated cell holds afterwards
CellFlag(a, ixy, old) ==
    LET area_box == a.cdelt1 * a.cdelt2
        ov == ShFindOverlap(a, ixy)
    IN  IF CoverageAbove(ov, area_box, TolerancePct)
        THEN IF CoverageAbove(ov, area_box, FullPct)
             THEN a.overlap_full ELSE a.overlap_partial
        ELSE old

\* lines 305-353
OverlapFovBuffer(buf, a) ==
    [i \in DOMAIN buf |-> IF i \in FovEvaluated(a) THEN CellFlag(a, i, buf[i]) ELSE buf[i]]

\* ------------------------------------------------------------------------
\* Specification SpecFov: one call of overlap_fov_with_spaxels
\* ------------------------------------------------------------------------
FovGrids == {<<2, 2>>, <<3, 2>>}
FovCdelt == {<<10, 10>>, <<10, -10>>, <<-10, -10>>}
FovXi == {[i \in 0..3 |-> IF i \in {1, 2} THEN 40 ELSE -20],
          [i \in 0..3 |-> IF i \in {1, 2} THEN -20 ELSE 40]}
FovEta ==
    {[i \in 0..3 |-> IF i \in {0, 3} THEN e0 ELSE e1] :
        e0 \in {-20, 0, 6, 40}, e1 \in {-20, 0, 6, 40}}
FovAreas == {0, 5, 6, 95, 96, 100}
FovStray == {0, 1000}
FovPrior == {0, 8}

FovArgs ==
    {[overlap_partial |-> f.overlap_partial, overlap_full |-> f.overlap_full,
      cdelt1 |-> c[1], cdelt2 |-> c[2],
      naxis1 |-> g[1], naxis2 |-> g[2],
      xcenters |-> [i \in 0..(g[1] - 1) |-> 10 * i],
      ycenters |-> [i \in 0..(g[2] - 1) |-> 10 * i],
      xi_corner |-> xi, eta_corner |-> eta,
      area |-> [k \in 0..(g[1] * g[2] - 1) |->
                   IF ((k % g[1]) + (k \div g[1])) % 2 = 0 THEN a0 ELSE a1],
      stray |-> IF g[1] > g[2] THEN sv ELSE 0,
      prior |-> v] :
        f \in FlagPairs, c \in FovCdelt, g \in FovGrids, xi \in FovXi,
        eta \in FovEta, a0 \in FovAreas, a1 \in FovAreas, sv \in FovStray,
        v \in FovPrior}

InitFov ==
    /\ fn = "overlap_fov_with_spaxels"
    /\ args \in FovArgs
    /\ pc = "call"
    /\ wave_slice_dq = [i \in 0..(args.naxis1 * args.naxis2 - 1) |-> args.prior]
    /\ idqv = NULL
    /\ w = 0
    /\ status = NotReturned
    /\ ret = Unset
    /\ ub = {}
    /\ failed = {}

\* the call runs to its return 0 (line 353)
OverlapFovReturn ==
    /\ fn = "overlap_fov_with_spaxels"
    /\ pc = "call"
    /\ wave_slice_dq' = OverlapFovBuffer(wave_slice_dq, args)
    /\ ub' = IF FovStrayReads(args) = {} THEN ub ELSE ub \cup {"oob_read"}
    /\ status' = 0
    /\ pc' = "done"
    /\ UNCHANGED <<fn, args, idqv, w, ret, failed>>

\* a read outside ycenters[] (line 330) ends the process
OverlapFovCrash ==
    /\ fn = "overlap_fov_with_spaxels"
    /\ pc = "call"
    /\ FovStrayReads(args) # {}
    /\ ub' = ub \cup {"oob_read"}
    /\ pc' = "crashed"
    /\ UNCHANGED <<fn, args, wave_slice_dq, idqv, w, status, ret, failed>>

NextFov == OverlapFovReturn \/ OverlapFovCrash

SpecFov == InitFov /\ [][NextFov]_vars

\* ------------------------------------------------------------------------
\* Claims about overlap_fov_with_spaxels
\* ------------------------------------------------------------------------
FovDone == fn = "overlap_fov_with_spaxels" /\ pc = "done"

MinOf(f) == CHOOSE v \in {f[i] : i \in DOMAIN f} : \A i \in DOMAIN f : v <= f[i]
MaxOf(f) == CHOOSE v \in {f[i] : i \in DOMAIN f} : \A i \in DOMAIN f : v >= f[i]

\* the rectangle (xcenters[ix] +/- cdelt1/2, ycenters[iy] +/- cdelt2/2) lies
\* strictly inside [min xi, max xi] x [min eta, max eta]; all doubled
CellInsideBox(a, ix, iy) ==
    /\ 2 * a.xcenters[ix] - Abs(a.cdelt1) > 2 * MinOf(a.xi_corner)
    /\ 2 * a.xcenters[ix] + Abs(a.cdelt1) < 2 * MaxOf(a.xi_corner)
    /\ 2 * a.ycenters[iy] - Abs(a.cdelt2) > 2 * MinOf(a.eta_corner)
    /\ 2 * a.ycenters[iy] + Abs(a.cdelt2) < 2 * MaxOf(a.eta_corner)

\* C3: every cell whose rectangle lies strictly inside the bounding box of the
\* four corners is evaluated and flagged; one of them whose coverage fraction
\* exceeds 0.95 ends up overlap_full.
C3_CellsInsideBoxFlagged ==
    (FovDone /\ args.cdelt1 > 0 /\ args.cdelt2 > 0) =>
        \A ix \in 0..(args.naxis1 - 1), iy \in 0..(args.naxis2 - 1) :
            LET ixy == iy * args.naxis1 + ix
            IN  (/\ CellInsideBox(args, ix, iy)
                 /\ 100 * args.area[ixy] > FullPct * args.cdelt1 * args.cdelt2) =>
                    wave_slice_dq[ixy] = args.overlap_full

\* C4: an evaluated cell with coverage fraction f is left unchanged if
\* f <= 0.05, set to overlap_partial if 0.05 < f <= 0.95 and to overlap_full
\* if f > 0.95; exactly 5% is not flagged, exactly 95% is partial.
C4_ThresholdsSharp ==
    FovDone =>
        \A ixy \in FovEvaluated(args) :
            LET box == args.cdelt1 * args.cdelt2
                ov == args.area[ixy]
                \* f <= pct/100, by the sign of the cell area
                atMost(pct) == IF box > 0 THEN 100 * ov <= pct * box
                               ELSE 100 * ov >= pct * box
            IN  wave_slice_dq[ixy] =
                    IF atMost(5) THEN args.prior
                    ELSE IF atMost(95) THEN args.overlap_partial
                    ELSE args.overlap_full

\* an evaluated cell with exactly 5% coverage left as it was, another with
\* exactly 95% set to overlap_partial
C4_Witness ==
    /\ FovDone
    /\ \E c \in FovEvaluated(args) :
           /\ 100 * args.area[c] = 5 * args.cdelt1 * args.cdelt2
           /\ wave_slice_dq[c] = args.prior
    /\ \E c \in FovEvaluated(args) :
           /\ 100 * args.area[c] = 95 * args.cdelt1 * args.cdelt2
           /\ wave_slice_dq[c] = args.overlap_partial

\* ------------------------------------------------------------------------
\* The orchestrators dq_miri and dq_nirspec, and set_dqplane_to_zero
\* ------------------------------------------------------------------------
GarbageArray(n) == [i \in 0..(n - 1) |-> 1]

\* mem_alloc_dq, lines 24-49: calloc gives nelem zeroed ints
MemAllocDq(nelem) == ZeroArray(nelem)

\* lines 697-702 (dq_miri), 831-837 (dq_nirspec): idqv[in] = wave_slice_dq[ii]
\* for in = nxy*w .. nxy*w + nxy - 1, ii = in - nxy*w
CopyPlane(out, buf, wi, nxy) ==
    [in \in DOMAIN out |->
        IF in \in (nxy * wi)..(nxy * wi + nxy - 1) THEN buf[in - nxy * wi]
        ELSE out[in]]

\* lines 697-706 with status_wave != 0: idqv[in] = 0 over the plane
ZeroPlane(out, wi, nxy) ==
    [in \in DOMAIN out |->
        IF in \in (nxy * wi)..(nxy * wi + nxy - 1) THEN 0 ELSE out[in]]

\* lines 680-695: the arguments dq_miri passes to overlap_fov_with_spaxels
MiriFovArgs(a, c) ==
    [overlap_partial |-> a.overlap_partial, overlap_full |-> a.overlap_full,
     cdelt1 |-> a.cdelt1, cdelt2 |-> a.cdelt2, naxis1 |-> a.nx, naxis2 |-> a.ny,
     xcenters |-> a.xc, ycenters |-> a.yc,
     xi_corner |-> [i \in 0..3 |-> <<c.corner1, c.corner2, c.corner3, c.corner4>>[i + 1][1]],
     eta_corner |-> [i \in 0..3 |-> <<c.corner1, c.corner2, c.corner3, c.corner4>>[i + 1][2]],
     area |-> a.area, stray |-> a.stray]

\* lines 675-677
MiriCorners(a, wi) ==
    CornerWavePlaneMiri(wi, a.start_region, a.end_region, a.roiw_ave, a.zc, a.pts)

\* lines 671-696: the scratch buffer of plane wi when the copy starts
MiriScratch(a, wi) ==
    LET c == MiriCorners(a, wi)
    IN  IF c.status = 0
        THEN OverlapFovBuffer(ZeroArray(a.nx * a.ny), MiriFovArgs(a, c))
        ELSE ZeroArray(a.nx * a.ny)

\* lines 697-706
MiriOutput(out, a, wi) ==
    IF MiriCorners(a, wi).status = 0
    THEN CopyPlane(out, MiriScratch(a, wi), wi, a.nx * a.ny)
    ELSE ZeroPlane(out, wi, a.nx * a.ny)

\* the reads ycenters[ix] outside the array made for plane wi
MiriStrayReads(a, wi) ==
    LET c == MiriCorners(a, wi)
    IN  IF c.status = 0 THEN FovStrayReads(MiriFovArgs(a, c)) ELSE {}

\* lines 786-791
NirspecMatch(a, wi) == MatchWavePlaneNirspec(a.zc[wi], a.roiw_ave, a.pts)

\* lines 805-825: the arguments of the call for slice islice
NirspecSliceArgs(a, m, islice) ==
    [overlap_partial |-> a.overlap_partial,
     cdelt1 |-> a.cdelt1, cdelt2 |-> a.cdelt2, naxis1 |-> a.nx, naxis2 |-> a.ny,
     xstart |-> a.xc[0], ystart |-> a.yc[0],
     xi_min |-> m.c1_min[islice], eta_min |-> m.c2_min[islice],
     xi_max |-> m.c1_max[islice], eta_max |-> m.c2_max[islice]]

\* lines 803-829: the slices rasterized for the plane
NirspecSlicesFound(m) ==
    IF m.ii > 0 THEN {i \in 0..(NSLICE - 1) : m.match_slice[i] = 1} ELSE {}

\* lines 804-827: the scratch buffer after slices islice..29
RECURSIVE NirspecRaster(_, _, _, _)
NirspecRaster(buf, a, m, islice) ==
    IF ~(islice < NSLICE)
    THEN buf
    ELSE NirspecRaster(IF islice \in NirspecSlicesFound(m)
                       THEN OverlapSliceBuffer(buf, NirspecSliceArgs(a, m, islice))
                       ELSE buf,
                       a, m, islice + 1)

\* lines 795-829: the scratch buffer of plane wi, zeroed at lines 797-799,
\* when the copy starts
NirspecScratch(a, wi) ==
    NirspecRaster(ZeroArray(a.nx * a.ny), a, NirspecMatch(a, wi), 0)

\* the stores of plane wi that fall outside the scratch buffer
NirspecStray(a, wi) ==
    LET m == NirspecMatch(a, wi)
    IN  UNION {LineStray(NirspecSliceArgs(a, m, i)) : i \in NirspecSlicesFound(m)}

\* lines 830-838: copied only if imatch > 0 && slice_found == 1
NirspecOutput(out, a, wi) ==
    IF NirspecSlicesFound(NirspecMatch(a, wi)) # {}
    THEN CopyPlane(out, NirspecScratch(a, wi), wi, a.nx * a.ny)
    ELSE out

\* ------------------------------------------------------------------------
\* Specification SpecDq: one call of dq_miri, dq_nirspec or
\* set_dqplane_to_zero
\* ------------------------------------------------------------------------
MaxDqPts == 2

DqGrids == {<<2, 3>>, <<3, 2>>}
DqCdelt == {2, -2}
DqPoints ==
    [coord1 : {0, 2, 4}, coord2 : {1, 3, 4}, wave : {0, 1, 2}, sliceno : {1, NSLICE}]

DqArgs ==
    {[overlap_partial |-> f.overlap_partial, overlap_full |-> f.overlap_full,
      nx |-> g[1], ny |-> g[2], nz |-> 2, ncube |-> g[1] * g[2] * 2,
      cdelt1 |-> d, cdelt2 |-> d, roiw_ave |-> 2,
      xc |-> [i \in 0..(g[1] - 1) |-> 2 * i],
      yc |-> [i \in 0..(g[2] - 1) |-> 2 * i],
      zc |-> [i \in 0..1 |-> 2 * i],
      start_region |-> 1, end_region |-> NSLICE,
      area |-> [k \in 0..(g[1] * g[2] - 1) |-> IF k % 2 = 0 THEN 4 ELSE 2],
      stray |-> 0,
      pts |-> c] :
        f \in FlagPairs, g \in DqGrids, d \in DqCdelt,
        c \in SeqsUpTo(DqPoints, MaxDqPts)}

InitDq ==
    /\ fn \in {"dq_miri", "dq_nirspec", "set_dqplane_to_zero"}
    /\ args \in IF fn = "set_dqplane_to_zero"
                THEN {[ncube |-> g[1] * g[2] * 2] : g \in DqGrids}
                ELSE DqArgs
    /\ pc = "call"
    /\ wave_slice_dq = <<>>
    /\ idqv = NULL
    /\ w = 0
    /\ status = NotReturned
    /\ ret = Unset
    /\ ub = {}
    /\ failed = {}

\* set_dqplane_to_zero, lines 602-605
SetDqplaneToZero ==
    /\ fn = "set_dqplane_to_zero" /\ pc = "call"
    /\ idqv' = MemAllocDq(args.ncube)
    /\ ret' = idqv'
    /\ status' = 0
    /\ pc' = "done"
    /\ UNCHANGED <<fn, args, wave_slice_dq, w, ub, failed>>

\* line 603: mem_alloc_dq returned 1
SetDqplaneToZeroNoMemory ==
    /\ fn = "set_dqplane_to_zero" /\ pc = "call"
    /\ failed' = failed \cup {"idqv"}
    /\ status' = 1
    /\ pc' = "done"
    /\ UNCHANGED <<fn, args, wave_slice_dq, idqv, w, ret, ub>>

\* dq_miri, line 653
MiriAllocOutput ==
    /\ fn = "dq_miri" /\ pc = "call"
    /\ idqv' = MemAllocDq(args.ncube)
    /\ pc' = "alloc_scratch"
    /\ UNCHANGED <<fn, args, wave_slice_dq, w, status, ret, ub, failed>>

\* line 653: if (mem_alloc_dq(ncube, &idqv)) return 1
MiriAllocOutputNoMemory ==
    /\ fn = "dq_miri" /\ pc = "call"
    /\ failed' = failed \cup {"idqv"}
    /\ status' = 1
    /\ pc' = "done"
    /\ UNCHANGED <<fn, args, wave_slice_dq, idqv, w, ret, ub>>

\* line 666
MiriAllocScratch ==
    /\ fn = "dq_miri" /\ pc = "alloc_scratch"
    /\ wave_slice_dq' = MemAllocDq(args.nx * args.ny)
    /\ pc' = "loop"
    /\ UNCHANGED <<fn, args, idqv, w, status, ret, ub, failed>>

\* line 666: if (mem_alloc_dq(nxy, &wave_slice_dq)) return 1
MiriAllocScratchNoMemory ==
    /\ fn = "dq_miri" /\ pc = "alloc_scratch"
    /\ failed' = failed \cup {"wave_slice_dq"}
    /\ status' = 1
    /\ pc' = "done"
    /\ UNCHANGED <<fn, args, wave_slice_dq, idqv, w, ret, ub>>

\* lines 669-708: one pass of the loop over the wavelength planes
MiriPlane ==
    /\ fn = "dq_miri" /\ pc = "loop" /\ w < args.nz
    /\ wave_slice_dq' = MiriScratch(args, w)
    /\ idqv' = MiriOutput(idqv, args, w)
    /\ ub' = IF MiriStrayReads(args, w) = {} THEN ub ELSE ub \cup {"oob_read"}
    /\ w' = w + 1
    /\ UNCHANGED <<fn, args, pc, status, ret, failed>>

\* lines 330-331 reached from line 690: a read outside yc[] ends the process
MiriPlaneCrash ==
    /\ fn = "dq_miri" /\ pc = "loop" /\ w < args.nz
    /\ MiriStrayReads(args, w) # {}
    /\ ub' = ub \cup {"oob_read"}
    /\ pc' = "crashed"
    /\ UNCHANGED <<fn, args, wave_slice_dq, idqv, w, status, ret, failed>>

\* lines 710-713
MiriReturn ==
    /\ fn = "dq_miri" /\ pc = "loop" /\ ~(w < args.nz)
    /\ ret' = idqv
    /\ status' = 0
    /\ pc' = "done"
    /\ UNCHANGED <<fn, args, wave_slice_dq, idqv, w, ub, failed>>

\* dq_nirspec, lines 768-772: calloc gave memory, which the loop zeroes again
NirspecAllocOutput ==
    /\ fn = "dq_nirspec" /\ pc = "call"
    /\ idqv' = ZeroArray(args.ncube)
    /\ pc' = "loop"
    /\ UNCHANGED <<fn, args, wave_slice_dq, w, status, ret, ub, failed>>

\* lines 768-772: calloc returned NULL, which nothing tests; the stores
\* idqv[i] = 0 through the null pointer had no visible effect
NirspecAllocOutputNoMemory ==
    /\ fn = "dq_nirspec" /\ pc = "call"
    /\ failed' = failed \cup {"idqv"}
    /\ idqv' = NULL
    /\ ub' = ub \cup {"null_store"}
    /\ pc' = "loop"
    /\ UNCHANGED <<fn, args, wave_slice_dq, w, status, ret>>

\* lines 768-772: calloc returned NULL and the first store idqv[0] = 0 ends
\* the process
NirspecNullStoreCrash ==
    /\ fn = "dq_nirspec" /\ pc = "call"
    /\ failed' = failed \cup {"idqv"}
    /\ idqv' = NULL
    /\ ub' = ub \cup {"null_store"}
    /\ pc' = "crashed"
    /\ UNCHANGED <<fn, args, wave_slice_dq, w, status, ret>>

\* line 795: if (mem_alloc_dq(nxy, &wave_slice_dq)) return 1
NirspecAllocScratchNoMemory ==
    /\ fn = "dq_nirspec" /\ pc = "loop" /\ w < args.nz
    /\ failed' = failed \cup {"wave_slice_dq"}
    /\ status' = 1
    /\ pc' = "done"
    /\ UNCHANGED <<fn, args, wave_slice_dq, idqv, w, ret, ub>>

\* lines 776-840: one pass of the loop over the wavelength planes; stores
\* outside the scratch buffer, if any, had no visible effect.  With idqv NULL
\* the copy of lines 834-837 stores through the null pointer.
NirspecPlane ==
    /\ fn = "dq_nirspec" /\ pc = "loop" /\ w < args.nz
    /\ wave_slice_dq' = NirspecScratch(args, w)
    /\ idqv' = IF IsNull(idqv) THEN NULL ELSE NirspecOutput(idqv, args, w)
    /\ ub' = ub \cup (IF NirspecStray(args, w) = {} THEN {} ELSE {"oob_store"})
    /\ w' = w + 1
    /\ UNCHANGED <<fn, args, pc, status, ret, failed>>

\* the same pass when a store outside the scratch buffer (line 570) lands in
\* element k of the other heap array, idqv, before the copy of lines 834-837
NirspecPlaneStrayStore ==
    /\ fn = "dq_nirspec" /\ pc = "loop" /\ w < args.nz
    /\ NirspecStray(args, w) # {}
    /\ ~IsNull(idqv)
    /\ \E k \in DOMAIN idqv :
           idqv' = NirspecOutput([idqv EXCEPT ![k] = args.overlap_partial], args, w)
    /\ wave_slice_dq' = NirspecScratch(args, w)
    /\ ub' = ub \cup {"oob_store"}
    /\ w' = w + 1
    /\ UNCHANGED <<fn, args, pc, status, ret, failed>>

\* the same pass when a store outside the scratch buffer ends the process
NirspecPlaneCrash ==
    /\ fn = "dq_nirspec" /\ pc = "loop" /\ w < args.nz
    /\ NirspecStray(args, w) # {}
    /\ ub' = ub \cup {"oob_store"}
    /\ pc' = "crashed"
    /\ UNCHANGED <<fn, args, wave_slice_dq, idqv, w, status, ret, failed>>

\* lines 841-843
NirspecReturn ==
    /\ fn = "dq_nirspec" /\ pc = "loop" /\ ~(w < args.nz)
    /\ ret' = idqv
    /\ status' = 0
    /\ pc' = "done"
    /\ UNCHANGED <<fn, args, wave_slice_dq, idqv, w, ub, failed>>

NextDq ==
    \/ SetDqplaneToZero \/ SetDqplaneToZeroNoMemory
    \/ MiriAllocOutput \/ MiriAllocOutputNoMemory
    \/ MiriAllocScratch \/ MiriAllocScratchNoMemory
    \/ MiriPlane \/ MiriPlaneCrash \/ MiriReturn
    \/ NirspecAllocOutput \/ NirspecAllocOutputNoMemory \/ NirspecNullStoreCrash
    \/ NirspecAllocScratchNoMemory
    \/ NirspecPlane \/ NirspecPlaneStrayStore \/ NirspecPlaneCrash
    \/ NirspecReturn

SpecDq == InitDq /\ [][NextDq]_vars

\* ------------------------------------------------------------------------
\* Properties of SpecDq
\* ------------------------------------------------------------------------
DqReturned(f) == fn = f /\ pc = "done" /\ status = 0

\* the points of the cloud with |zc[wi] - wave| < roiw_ave
PlanePoints(wi) ==
    {i \in DOMAIN args.pts : Abs(args.zc[wi] - args.pts[i].wave) < args.roiw_ave}

\* plane wi has no qualifying point, for the instrument of the call
PlaneEmpty(wi) ==
    IF fn = "dq_miri"
    THEN \/ ~\E i \in PlanePoints(wi) : args.pts[i].sliceno = args.start_region
         \/ ~\E i \in PlanePoints(wi) : args.pts[i].sliceno = args.end_region
    ELSE PlanePoints(wi) = {}

\* the elements of the output array that exist in the region of plane wi
PlaneRegion(wi) ==
    {k \in DOMAIN ret : /\ args.nx * args.ny * wi <= k
                         /\ k < args.nx * args.ny * (wi + 1)}

\* C1: when dq_miri or dq_nirspec returns 0, every wavelength plane with no
\* qualifying point has all the elements of its output region equal to 0,
\* whatever the other planes contain.
C1_EmptyPlanesAllZero ==
    (DqReturned("dq_miri") \/ DqReturned("dq_nirspec")) =>
        \A wi \in 0..(args.nz - 1) :
            PlaneEmpty(wi) => \A k \in PlaneRegion(wi) : ret[k] = 0

\* C2: dq_miri and dq_nirspec return 1 if and only if one of their
\* allocations failed, and no array is written before its allocation has
\* been tested.
C2_StatusOneIffAllocationFailed ==
    /\ "null_store" \notin ub
    /\ (fn \in {"dq_miri", "dq_nirspec"} /\ pc = "done") =>
           (status = 1 <=> failed # {})

\* C8: after dq_miri returns 0 every element of the output array is 0,
\* overlap_partial or overlap_full; after dq_nirspec returns 0 every element
\* is 0 or overlap_partial; after set_dqplane_to_zero returns 0 all ncube
\* elements are 0.
C8_OutputFlagsOnly ==
    /\ DqReturned("dq_miri") =>
           /\ DOMAIN ret = 0..(args.ncube - 1)
           /\ \A k \in DOMAIN ret :
                  ret[k] \in {0, args.overlap_partial, args.overlap_full}
    /\ DqReturned("dq_nirspec") =>
           \A k \in DOMAIN ret : ret[k] \in {0, args.overlap_partial}
    /\ DqReturned("set_dqplane_to_zero") =>
           /\ DOMAIN ret = 0..(args.ncube - 1)
           /\ \A k \in DOMAIN ret : ret[k] = 0

\* dq_miri has returned an array holding all three values
C8_Witness ==
    /\ DqReturned("dq_miri")
    /\ \E k \in DOMAIN ret : ret[k] = 0
    /\ \E k \in DOMAIN ret : ret[k] = args.overlap_partial
    /\ \E k \in DOMAIN ret : ret[k] = args.overlap_full

\* the call's arguments with the point cloud cut down to the points that
\* qualify for plane wi
PlaneArgs(wi) ==
    LET Q(p) == Abs(args.zc[wi] - p.wave) < args.roiw_ave
    IN  [args EXCEPT !.pts = SelectSeq(args.pts, Q)]

\* one pass of the loop over the planes of dq_miri or dq_nirspec, with the
\* output array allocated
PlaneProcessed ==
    /\ fn \in {"dq_miri", "dq_nirspec"}
    /\ pc = "loop" /\ pc' = "loop" /\ w' = w + 1
    /\ ~IsNull(idqv)

\* C12: processing plane w leaves output[w*nx*ny + k] = scratch[k] for all k
\* in 0..nx*ny-1, modifies no output element outside the region of plane w,
\* and the scratch buffer (zeroed before the first rasterizer call) depends
\* only on the points qualifying for plane w.
C12_PlaneFrame ==
    [][PlaneProcessed =>
        LET nxy == args.nx * args.ny
        IN  /\ \A k \in 0..(nxy - 1) : idqv'[nxy * w + k] = wave_slice_dq'[k]
            /\ \A k \in DOMAIN idqv :
                   (k < nxy * w \/ k >= nxy * (w + 1)) => idqv'[k] = idqv[k]
            /\ wave_slice_dq' = IF fn = "dq_miri"
                                THEN MiriScratch(PlaneArgs(w), w)
                                ELSE NirspecScratch(PlaneArgs(w), w)]_vars

\* the stores overlap_slice_with_spaxels makes for plane wi of a dq_nirspec
\* call, one call per matched slice
NirspecStores(wi) ==
    LET m == NirspecMatch(args, wi)
    IN  UNION {LineCells(NirspecSliceArgs(args, m, i)) : i \in NirspecSlicesFound(m)}

\* C13: every store overlap_slice_with_spaxels makes to the scratch buffer,
\* for every slice extent dq_nirspec passes to it, has its column xuse in
\* 0..naxis1-1, its row yuse in 0..naxis2-1 and its index in
\* 0..naxis1*naxis2-1.
C13_StoresInsideScratch ==
    (fn = "dq_nirspec" /\ pc \in {"loop", "done", "crashed"}) =>
        /\ "oob_store" \notin ub
        /\ \A wi \in 0..(w - 1) : \A c \in NirspecStores(wi) :
               /\ c.xuse \in 0..(args.nx - 1)
               /\ c.yuse \in 0..(args.ny - 1)
               /\ c.index \in 0..(args.nx * args.ny - 1)

====
